---- MODULE Spec2Model ----
(***************************************************************************)
(* Model of the Alaska chat client: the conversation session of App        *)
(* (handleSendMessage, playResponseAudio, toggleRecording, toggleLanguage, *)
(* setupRecognition), the input area (InputArea.handleSend), the Gemini    *)
(* service (getAiClient, generateTextResponse, generateSpeech) and the     *)
(* playback controller (playAudioBuffer).                                  *)
(*                                                                         *)
(* The browser runs one task at a time: every action below is one task     *)
(* (a UI event, a network completion, an audio or speech-capture event)    *)
(* together with the promise continuations it triggers.  A handler that    *)
(* awaits a network call is split at the await: the call record keeps its  *)
(* position in pc.  The AudioContext is assumed to exist in the browser.   *)
(*                                                                         *)
(* The text and the attachments of a typed send are inputs of HandleSend:  *)
(* the textarea of InputArea is not part of the state.  The backend, the   *)
(* speech capture and the audio device are the environment: their results  *)
(* and events are chosen nondeterministically.                             *)
(***************************************************************************)
EXTENDS Integers, Sequences, FiniteSets, TLC

\* ---- bounds of the model ----
\* sends of a session (Spec), sends of a session driven by voice (SpecVoice),
\* language switches, attachments of a send, length of a history list
\* (SpecHist), backend calls that fail in a session, playback handles and
\* stop() calls per handle (SpecHandle), bytes and channels of a decoded
\* buffer (SpecDecode), calls of InputArea.handleSend (SpecInput)
MaxSends == 2
MaxVoiceSends == 3
MaxLangToggles == 1
MaxAttachments == 1
MaxHist == 11
MaxFailures == 1
MaxHandles == 2
MaxStops == 3
MaxBytes == 4
MaxChannels == 2
MaxClicks == 3

\* ---- program constants ----
HistoryLimit == 10

MissingKeyNotice == "API key missing or invalid"
ConnectionErrorText == "Error connecting to Alaska AI"
NoResponseText == "Sorry, I couldn't generate a response."
ReplyText == "reply"
Transcript == "transcript"

ErrorStrings == {MissingKeyNotice, ConnectionErrorText, NoResponseText}

\* texts the user can have in the textarea: blank, non-blank
InputTexts == {" ", "hello"}

\* results of the backend call behind generateTextResponse
\*   ok: a reply with text; empty: a reply without text; apikey: an error
\*   mentioning the API key or status 403; error: any other failure;
\*   readerr: an attachment could not be read
TextOutcomes == {"ok", "empty", "apikey", "error", "readerr"}

\* results of generateSpeech: an audio buffer, no audio data, a failure
SpeechOutcomes == {"audio", "none", "fail"}

VARIABLES
    messages,              \* App state: Message[]
    isLoading,             \* App state
    isRecording,           \* App state
    language,              \* App state: "ar" | "en"
    activeAudioSourceRef,  \* 0 (null) or the index of a source in sources
    recognitionRef,        \* 0 (null) or the index of an instance in recognitions
    recognitions,          \* the webkitSpeechRecognition instances created so far
    sources,               \* the AudioBufferSourceNodes created by playAudioBuffer
    calls,                 \* the invocations of handleSendMessage, with their position
    aiInstance,            \* geminiService: whether the client is cached
    apiKey,                \* whether process.env.API_KEY is set
    speechSupported,       \* whether 'webkitSpeechRecognition' in window
    sendLimit,             \* number of sends of the sessions under study
    langToggles,           \* number of language switches so far (bounded)
    failures,              \* number of backend calls that failed so far (bounded)
    histArg,               \* a history list handed to generateTextResponse
    reqHistory,            \* the history of the last request built from histArg
    reqContext,            \* the context of that request
    handles,               \* playback handles returned by playAudioBuffer
    stopCalls,             \* per handle, the number of stop() calls made on it
    stopRaised,            \* whether a stop() call raised to its caller
    decBuffer,             \* the ArrayBuffer behind the Uint8Array given to decodeAudioData
    decOffset,             \* the byteOffset of that Uint8Array in its buffer
    decChannels,           \* numChannels
    decResult,             \* what decodeAudioData returned, or the error it threw
    inputText,             \* InputArea state: text
    inputAttachments,      \* InputArea state: number of pending attachments
    sendClicks             \* number of calls of InputArea.handleSend so far (bounded)

\* the environment of a session, which no operation changes
envVars == <<apiKey, speechSupported, sendLimit>>

vars == <<messages, isLoading, isRecording, language, activeAudioSourceRef,
          recognitionRef, recognitions, sources, calls, aiInstance, envVars,
          langToggles, failures,
          histArg, reqHistory, reqContext,
          handles, stopCalls, stopRaised,
          decBuffer, decOffset, decChannels, decResult,
          inputText, inputAttachments, sendClicks>>

appVars == <<messages, isLoading, isRecording, language, activeAudioSourceRef,
             recognitionRef, recognitions, sources, calls, aiInstance, envVars,
             langToggles, failures>>

histVars == <<histArg, reqHistory, reqContext>>

handleVars == <<handles, stopCalls, stopRaised>>

decVars == <<decBuffer, decOffset, decChannels, decResult>>

inputVars == <<inputText, inputAttachments, sendClicks>>

\* the variables of the studies of single functions, which the handlers of
\* App leave alone
sideVars == <<histVars, handleVars, decVars, inputVars>>

Min(a, b) == IF a < b THEN a ELSE b
Max(a, b) == IF a > b THEN a ELSE b

\* ---- types.ts ----
NewMessage(id, role, txt, atts) ==
    [id |-> id, role |-> role, text |-> txt, attachments |-> atts,
     isAudioPlaying |-> FALSE]

\* ---- geminiService.ts ----

\* a getAiClient that creates the client without looking at the key
getAiClientNoCheck(instance, key) ==
    [ok |-> TRUE, instance |-> TRUE]

\* getAiClient: the cached client, or a new one when the key is set;
\* throws API_KEY_MISSING (ok = FALSE) otherwise
getAiClient(instance, key) ==
    IF instance THEN [ok |-> TRUE, instance |-> TRUE]
    ELSE IF ~key THEN [ok |-> FALSE, instance |-> FALSE]
    ELSE [ok |-> TRUE, instance |-> TRUE]

\* history.slice(-10)
SliceLast(h, n) == SubSeq(h, Max(Len(h) - n, 0) + 1, Len(h))

\* a context built from the first messages of the history instead
RecentHistoryFirst(history) ==
    LET recent == SubSeq(history, 1, Min(Len(history), HistoryLimit))
    IN [i \in 1..Len(recent) |->
           [role |-> IF recent[i].role = "user" THEN "user" ELSE "model",
            text |-> recent[i].text]]

\* recentHistory.map(m => ({role, parts: [{text}]}))
RecentHistory(history) ==
    LET recent == SliceLast(history, HistoryLimit)
    IN [i \in 1..Len(recent) |->
           [role |-> IF recent[i].role = "user" THEN "user" ELSE "model",
            text |-> recent[i].text]]

\* a generateTextResponse that lets the errors of the backend call escape
GenerateTextResultRaising(outcome) ==
    IF outcome = "ok" THEN [raised |-> FALSE, text |-> ReplyText]
    ELSE IF outcome = "empty" THEN [raised |-> FALSE, text |-> NoResponseText]
    ELSE [raised |-> TRUE, text |-> ""]

\* what generateTextResponse returns for each result of the backend call;
\* API_KEY_MISSING is the error getAiClient throws; raised tells whether the
\* promise is rejected
GenerateTextResult(outcome) ==
    IF outcome = "ok" THEN [raised |-> FALSE, text |-> ReplyText]
    ELSE IF outcome = "empty" THEN [raised |-> FALSE, text |-> NoResponseText]
    ELSE IF outcome \in {"API_KEY_MISSING", "apikey"}
         THEN [raised |-> FALSE, text |-> MissingKeyNotice]
    ELSE [raised |-> FALSE, text |-> ConnectionErrorText]

\* ---- audioUtils.ts ----

\* the stop() of the handle playAudioBuffer returns: source.stop(), errors ignored
StopSource(srcs, h) ==
    IF srcs[h].state = "playing" THEN [srcs EXCEPT ![h].state = "stopped"]
    ELSE srcs

\* playAudioBuffer: a new source, started, whose onended runs the callback
\* of the message it speaks
PlayAudioBuffer(srcs, messageId) ==
    Append(srcs, [msg |-> messageId, state |-> "playing", callbacks |-> 0])

\* ---- App ----

\* prev.filter(m => !m.isAudioPlaying): the speaking messages dropped
ClearAllAudioDrop(msgs) == SelectSeq(msgs, LAMBDA m : ~m.isAudioPlaying)

\* prev.map(m => ({...m, isAudioPlaying: false}))
ClearAllAudio(msgs) ==
    [i \in 1..Len(msgs) |-> [msgs[i] EXCEPT !.isAudioPlaying = FALSE]]

\* prev.map(m => m.id === messageId ? {...m, isAudioPlaying: b} : m)
SetAudioPlaying(msgs, messageId, b) ==
    [i \in 1..Len(msgs) |->
        IF msgs[i].id = messageId THEN [msgs[i] EXCEPT !.isAudioPlaying = b]
        ELSE msgs[i]]

\* a playResponseAudio that leaves the flag alone when there is no audio
NoAudioMessagesKeep(msgs, messageId) == msgs

\* the else and catch branches of playResponseAudio
NoAudioMessages(msgs, messageId) == SetAudioPlaying(msgs, messageId, FALSE)

\* a handleSendMessage that clears isLoading only after a reply
LoadingAfterResponseStuck(result) == result.text \in ErrorStrings

\* isLoading after the awaited generateTextResponse settled: setIsLoading(false)
\* after the reply and in the catch block
LoadingAfterResponse(result) == FALSE

\* text.trim()
Trim(t) == IF t = " " THEN "" ELSE t

RecognitionLang(lang) == IF lang = "ar" THEN "ar-EG" ELSE "en-US"

\* new webkitSpeechRecognition() with the handlers of setupRecognition; its
\* onresult calls the handleSendMessage of the render that ran the effect,
\* which holds that render's messages (of which handleSendMessage reads the
\* id, role and text)
NewRecognition(lang, msgs) ==
    [lang |-> RecognitionLang(lang), state |-> "idle",
     closure |-> [i \in 1..Len(msgs) |->
                     [id |-> msgs[i].id, role |-> msgs[i].role, text |-> msgs[i].text]]]

TypeOK ==
    /\ isLoading \in BOOLEAN
    /\ isRecording \in BOOLEAN
    /\ language \in {"ar", "en"}
    /\ activeAudioSourceRef \in 0..Len(sources)
    /\ recognitionRef \in 0..Len(recognitions)
    /\ Len(calls) <= sendLimit

\* decodeAudioData has not been called
NotDecoded == [error |-> "pending", channels |-> <<>>]

\* InputArea as mounted: useState('') and useState([])
InputIdle == inputText = "" /\ inputAttachments = 0 /\ sendClicks = 0

\* no playback handle under study
HandlesIdle == handles = <<>> /\ stopCalls = <<>> /\ stopRaised = FALSE

\* no decoding under study
DecodeIdle ==
    decBuffer = <<>> /\ decOffset = 0 /\ decChannels = 1 /\ decResult = NotDecoded

Init ==
    /\ messages = <<>>
    /\ isLoading = FALSE
    /\ isRecording = FALSE
    /\ language = "ar"
    /\ activeAudioSourceRef = 0
    /\ speechSupported \in BOOLEAN
    /\ apiKey \in BOOLEAN
    /\ recognitions = IF speechSupported THEN <<NewRecognition("ar", <<>>)>> ELSE <<>>
    /\ recognitionRef = IF speechSupported THEN 1 ELSE 0
    /\ sources = <<>>
    /\ calls = <<>>
    /\ aiInstance = FALSE
    /\ sendLimit = MaxSends
    /\ langToggles = 0
    /\ failures = 0
    /\ histArg = <<>>
    /\ reqHistory = <<>>
    /\ reqContext = <<>>
    /\ HandlesIdle
    /\ DecodeIdle
    /\ InputIdle


\* ---- handleSendMessage ----

\* the rest of handleSendMessage once generateTextResponse has settled with
\* result: the assistant message and, in voice mode, playResponseAudio up to
\* its await of generateSpeech (which returns null at once when getAiClient
\* throws)
AfterResponse(msgs, result, isVoiceMode, instance) ==
    LET aiId == Len(msgs) + 1
        msgs1 == Append(msgs, NewMessage(aiId, "model", result.text, 0))
        speaking == SetAudioPlaying(msgs1, aiId, TRUE)
    IN  IF result.raised
        THEN [messages |-> msgs, aiMsg |-> 0, pc |-> "done"]
        ELSE IF ~isVoiceMode
        THEN [messages |-> msgs1, aiMsg |-> aiId, pc |-> "done"]
        ELSE IF getAiClient(instance, apiKey).ok
        THEN [messages |-> speaking, aiMsg |-> aiId, pc |-> "synth"]
        ELSE [messages |-> NoAudioMessages(speaking, aiId), aiMsg |-> aiId,
              pc |-> "done"]

\* handleSendMessage(text, attachments, isVoiceMode) of a render whose
\* messages are closureMessages, up to its await of the backend call
handleSendMessage(txt, atts, isVoiceMode, closureMessages) ==
    LET interrupt == activeAudioSourceRef # 0
        srcs1 == IF interrupt THEN StopSource(sources, activeAudioSourceRef)
                 ELSE sources
        msgs1 == IF interrupt THEN ClearAllAudio(messages) ELSE messages
        userId == Len(msgs1) + 1
        msgs2 == Append(msgs1, NewMessage(userId, "user", txt, atts))
        client == getAiClient(aiInstance, apiKey)
        call == [voice |-> isVoiceMode, text |-> txt, attachments |-> atts,
                 userMsg |-> userId,
                 history |-> [i \in 1..Len(closureMessages) |-> closureMessages[i].id],
                 context |-> <<>>, requested |-> FALSE, pc |-> "done",
                 aiMsg |-> 0]
        result == GenerateTextResult("API_KEY_MISSING")
        after == AfterResponse(msgs2, result, isVoiceMode, client.instance)
    IN  /\ Len(calls) < sendLimit
        /\ sources' = srcs1
        /\ activeAudioSourceRef' = 0
        /\ aiInstance' = client.instance
        /\ IF client.ok
           THEN /\ messages' = msgs2
                /\ isLoading' = TRUE
                /\ calls' = Append(calls,
                       [call EXCEPT !.context = RecentHistory(closureMessages),
                                    !.requested = TRUE, !.pc = "text"])
           ELSE /\ messages' = after.messages
                /\ isLoading' = LoadingAfterResponse(result)
                /\ calls' = Append(calls,
                       [call EXCEPT !.aiMsg = after.aiMsg])

\* the awaited generateTextResponse of call i settles
TextDone(i, outcome) ==
    /\ calls[i].pc = "text"
    /\ outcome # "ok" => failures < MaxFailures
    /\ failures' = IF outcome = "ok" THEN failures ELSE failures + 1
    /\ outcome = "readerr" => calls[i].attachments > 0
    /\ LET result == GenerateTextResult(outcome)
           after == AfterResponse(messages, result, calls[i].voice, aiInstance)
       IN  /\ messages' = after.messages
           /\ isLoading' = LoadingAfterResponse(result)
           /\ calls' = [calls EXCEPT ![i].pc = after.pc,
                                     ![i].aiMsg = after.aiMsg]
    /\ UNCHANGED <<isRecording, language, activeAudioSourceRef, recognitionRef,
                   recognitions, sources, aiInstance, envVars,
                   langToggles, sideVars>>

\* the awaited generateSpeech of call i settles: the rest of playResponseAudio
SynthDone(i, outcome) ==
    /\ calls[i].pc = "synth"
    /\ outcome # "audio" => failures < MaxFailures
    /\ failures' = IF outcome = "audio" THEN failures ELSE failures + 1
    /\ IF outcome = "audio"
       THEN LET srcs1 == IF activeAudioSourceRef # 0
                         THEN StopSource(sources, activeAudioSourceRef)
                         ELSE sources
            IN  /\ sources' = PlayAudioBuffer(srcs1, calls[i].aiMsg)
                /\ activeAudioSourceRef' = Len(sources')
                /\ messages' = messages
       ELSE /\ messages' = NoAudioMessages(messages, calls[i].aiMsg)
            /\ UNCHANGED <<sources, activeAudioSourceRef>>
    /\ calls' = [calls EXCEPT ![i].pc = "done"]
    /\ UNCHANGED <<isLoading, isRecording, language, recognitionRef,
                   recognitions, aiInstance, envVars,
                   langToggles, sideVars>>

\* the ended event of source h has not been delivered yet
EndedPending(srcs, h) ==
    srcs[h].state \in {"playing", "stopped"} /\ srcs[h].callbacks = 0

\* the ended event of source h is delivered: source.onended calls onEnded
SourceEnded(srcs, h) ==
    [srcs EXCEPT ![h].state = IF @ = "playing" THEN "ended" ELSE @,
                 ![h].callbacks = @ + 1]

\* source.onended of source h with the slot left as it is
OnEndedKeepSlot(h) ==
    /\ EndedPending(sources, h)
    /\ sources' = SourceEnded(sources, h)
    /\ messages' = SetAudioPlaying(messages, sources[h].msg, FALSE)
    /\ UNCHANGED activeAudioSourceRef
    /\ UNCHANGED <<isLoading, isRecording, language, recognitionRef,
                   recognitions, calls, aiInstance, envVars,
                   langToggles, failures, sideVars>>

\* source.onended of source h: the browser fires the event once per source,
\* at the natural end of the buffer (state "ended") or after a stop() (an
\* event it may deliver or not; the source stays "stopped", callbacks = 1)
OnEnded(h) ==
    /\ EndedPending(sources, h)
    /\ sources' = SourceEnded(sources, h)
    /\ messages' = SetAudioPlaying(messages, sources[h].msg, FALSE)
    /\ activeAudioSourceRef' = 0
    /\ UNCHANGED <<isLoading, isRecording, language, recognitionRef,
                   recognitions, calls, aiInstance, envVars,
                   langToggles, failures, sideVars>>

\* ---- InputArea ----

\* handleSend with text t in the textarea and atts pending attachments, when
\* it passes the guard of its first line
HandleSend(t, atts) ==
    /\ ~((Trim(t) = "" /\ atts = 0) \/ isLoading)
    /\ handleSendMessage(t, atts, FALSE, messages)
    /\ UNCHANGED <<isRecording, language, recognitionRef, recognitions, envVars,
                   langToggles, failures, sideVars>>

\* ---- voice capture ----

\* recognition.stop()
StopRecognition(recs, r) ==
    IF recs[r].state \in {"starting", "listening"}
    THEN [recs EXCEPT ![r].state = "stopping"] ELSE recs

\* recognition.abort()
AbortRecognition(recs, r) ==
    IF recs[r].state # "idle" THEN [recs EXCEPT ![r].state = "aborting"]
    ELSE recs

\* recognition.start(), which throws on an instance that is not idle
StartRecognition(recs, r) ==
    IF recs[r].state = "idle" THEN [recs EXCEPT ![r].state = "starting"]
    ELSE recs

\* toggleRecording
ToggleRecording ==
    /\ IF isRecording
       THEN /\ recognitions' = IF recognitionRef # 0
                               THEN StopRecognition(recognitions, recognitionRef)
                               ELSE recognitions
            /\ UNCHANGED <<sources, activeAudioSourceRef>>
       ELSE /\ sources' = IF activeAudioSourceRef # 0
                          THEN StopSource(sources, activeAudioSourceRef)
                          ELSE sources
            /\ activeAudioSourceRef' = 0
            /\ recognitions' = IF recognitionRef # 0
                               THEN StartRecognition(recognitions, recognitionRef)
                               ELSE recognitions
    /\ UNCHANGED <<messages, isLoading, isRecording, language, recognitionRef,
                   calls, aiInstance, envVars, langToggles,
                   failures, sideVars>>

\* recognition.onstart of instance r
OnStart(r) ==
    /\ recognitions[r].state = "starting"
    /\ recognitions' = [recognitions EXCEPT ![r].state = "listening"]
    /\ isRecording' = TRUE
    /\ UNCHANGED <<messages, isLoading, language, activeAudioSourceRef,
                   recognitionRef, sources, calls, aiInstance, envVars, langToggles,
                   failures, sideVars>>

\* recognition.onresult forwarding the transcript as a typed send
OnResultTyped(r) ==
    /\ recognitions[r].state \in {"listening", "stopping"}
    /\ recognitions' = [recognitions EXCEPT ![r].state = "ending"]
    /\ handleSendMessage(Transcript, 0, FALSE, recognitions[r].closure)
    /\ UNCHANGED <<isRecording, language, recognitionRef, envVars, langToggles,
                   failures, sideVars>>

\* recognition.onresult of instance r
OnResult(r) ==
    /\ recognitions[r].state \in {"listening", "stopping"}
    /\ recognitions' = [recognitions EXCEPT ![r].state = "ending"]
    /\ handleSendMessage(Transcript, 0, TRUE, recognitions[r].closure)
    /\ UNCHANGED <<isRecording, language, recognitionRef, envVars, langToggles,
                   failures, sideVars>>

\* recognition.onerror of instance r
OnError(r) ==
    /\ recognitions[r].state \in {"starting", "listening", "stopping"}
    /\ recognitions' = [recognitions EXCEPT ![r].state = "failed"]
    /\ isRecording' = FALSE
    /\ UNCHANGED <<messages, isLoading, language, activeAudioSourceRef,
                   recognitionRef, sources, calls, aiInstance, envVars, langToggles,
                   failures, sideVars>>

\* recognition.onend of instance r
OnEnd(r) ==
    /\ recognitions[r].state \in {"stopping", "ending", "failed", "aborting"}
    /\ recognitions' = [recognitions EXCEPT ![r].state = "idle"]
    /\ isRecording' = FALSE
    /\ UNCHANGED <<messages, isLoading, language, activeAudioSourceRef,
                   recognitionRef, sources, calls, aiInstance, envVars, langToggles,
                   failures, sideVars>>

\* setupRecognition constructing an instance whatever the window offers
setupRecognitionUnchecked(recs, lang) ==
    LET recs1 == IF recognitionRef # 0 THEN AbortRecognition(recs, recognitionRef)
                 ELSE recs
    IN  [recognitions |-> Append(recs1, NewRecognition(lang, messages)),
         ref |-> Len(recs1) + 1]

\* setupRecognition, run by the effect of the render that follows a change
\* of language to lang
setupRecognition(recs, lang) ==
    LET recs1 == IF recognitionRef # 0 THEN AbortRecognition(recs, recognitionRef)
                 ELSE recs
    IN  IF speechSupported
        THEN [recognitions |-> Append(recs1, NewRecognition(lang, messages)),
              ref |-> Len(recs1) + 1]
        ELSE [recognitions |-> recs1, ref |-> recognitionRef]

\* toggleLanguage and the effect it triggers
ToggleLanguage ==
    /\ langToggles < MaxLangToggles
    /\ langToggles' = langToggles + 1
    /\ language' = IF language = "ar" THEN "en" ELSE "ar"
    /\ isRecording' = FALSE
    /\ LET recs1 == IF isRecording /\ recognitionRef # 0
                    THEN StopRecognition(recognitions, recognitionRef)
                    ELSE recognitions
           setup == setupRecognition(recs1, language')
       IN  /\ recognitions' = setup.recognitions
           /\ recognitionRef' = setup.ref
    /\ UNCHANGED <<messages, isLoading, activeAudioSourceRef, sources, calls,
                   aiInstance, envVars, failures, sideVars>>

\* the backend answers a pending text generation or speech synthesis
TextResponse ==
    \E i \in 1..Len(calls) : \E o \in TextOutcomes : TextDone(i, o)

SpeechResponse ==
    \E i \in 1..Len(calls) : \E o \in SpeechOutcomes : SynthDone(i, o)

Next ==
    \/ \E t \in InputTexts : \E a \in 0..MaxAttachments : HandleSend(t, a)
    \/ ToggleRecording
    \/ ToggleLanguage
    \/ \E r \in 1..Len(recognitions) : OnStart(r)
    \/ \E r \in 1..Len(recognitions) : OnResult(r)
    \/ \E r \in 1..Len(recognitions) : OnError(r)
    \/ \E r \in 1..Len(recognitions) : OnEnd(r)
    \/ TextResponse
    \/ SpeechResponse
    \/ \E h \in 1..Len(sources) : OnEnded(h)

Spec == Init /\ [][Next]_vars


\* every backend call eventually returns or fails
FairSpec == Spec /\ WF_vars(TextResponse) /\ WF_vars(SpeechResponse)

\* ---- sessions driven by voice alone ----

InitVoice ==
    /\ messages = <<>>
    /\ isLoading = FALSE
    /\ isRecording = FALSE
    /\ language = "ar"
    /\ activeAudioSourceRef = 0
    /\ speechSupported = TRUE
    /\ apiKey = TRUE
    /\ recognitions = <<NewRecognition("ar", <<>>)>>
    /\ recognitionRef = 1
    /\ sources = <<>>
    /\ calls = <<>>
    /\ aiInstance = FALSE
    /\ sendLimit = MaxVoiceSends
    /\ langToggles = 0
    /\ failures = 0
    /\ histArg = <<>>
    /\ reqHistory = <<>>
    /\ reqContext = <<>>
    /\ HandlesIdle
    /\ DecodeIdle
    /\ InputIdle

NextVoice ==
    \/ ToggleRecording
    \/ \E r \in 1..Len(recognitions) : OnStart(r)
    \/ \E r \in 1..Len(recognitions) : OnResult(r)
    \/ \E r \in 1..Len(recognitions) : OnEnd(r)
    \/ TextResponse
    \/ SpeechResponse
    \/ \E h \in 1..Len(sources) : OnEnded(h)

SpecVoice == InitVoice /\ [][NextVoice]_vars

\* ---- generateTextResponse on history lists of every length ----

\* one more message at the end of the history list
HistAppend(role) ==
    /\ Len(histArg) < MaxHist
    /\ histArg' = Append(histArg,
           NewMessage(Len(histArg) + 1, role, ToString(Len(histArg) + 1), 0))
    /\ UNCHANGED <<appVars, reqHistory, reqContext, handleVars, decVars, inputVars>>

\* generateTextResponse builds the context of its request from histArg
HistRequest ==
    /\ reqHistory' = histArg
    /\ reqContext' = RecentHistory(histArg)
    /\ UNCHANGED <<appVars, histArg, handleVars, decVars, inputVars>>

NextHist ==
    \/ \E role \in {"user", "model"} : HistAppend(role)
    \/ HistRequest

SpecHist == Init /\ [][NextHist]_vars

\* ---- playAudioBuffer: the life of a playback handle ----

\* whether source.stop() of the browser throws: never on a playing source; on
\* a source that was stopped or has ended some engines throw
\* InvalidStateError and others ignore the call
SourceStopThrows(state) == IF state = "playing" THEN {FALSE} ELSE BOOLEAN

\* a stop() that calls source.stop() with no try
StopRaisesUncaught(thrown) == thrown

\* whether stop() of the handle raises when source.stop() has thrown or not:
\* try { source.stop() } catch (e) {}
StopRaises(thrown) == FALSE

\* playAudioBuffer returns one more handle
HandlePlay ==
    /\ Len(handles) < MaxHandles
    /\ handles' = PlayAudioBuffer(handles, 0)
    /\ stopCalls' = Append(stopCalls, 0)
    /\ UNCHANGED <<stopRaised, appVars, histVars, decVars, inputVars>>

\* stop() of handle h, at any time
HandleStop(h) ==
    /\ stopCalls[h] < MaxStops
    /\ \E thrown \in SourceStopThrows(handles[h].state) :
          stopRaised' = (stopRaised \/ StopRaises(thrown))
    /\ handles' = StopSource(handles, h)
    /\ stopCalls' = [stopCalls EXCEPT ![h] = @ + 1]
    /\ UNCHANGED <<appVars, histVars, decVars, inputVars>>

\* the ended event of the source of handle h
HandleEnded(h) ==
    /\ EndedPending(handles, h)
    /\ handles' = SourceEnded(handles, h)
    /\ UNCHANGED <<stopCalls, stopRaised, appVars, histVars, decVars, inputVars>>

\* the app as mounted; only the handles move
InitHandle == InitVoice

NextHandle ==
    \/ HandlePlay
    \/ \E h \in 1..Len(handles) : HandleStop(h)
    \/ \E h \in 1..Len(handles) : HandleEnded(h)

SpecHandle == InitHandle /\ [][NextHandle]_vars

\* ---- decodeAudioData ----

\* the divisor of line 32
SampleScale == 32768

\* byte values of the buffers decoded: the extremes of each byte of a sample
ByteValues == {0, 1, 127, 128, 255}

\* the bytes of the Uint8Array data: its buffer from byteOffset on
DataBytes(buffer, byteOffset) == SubSeq(buffer, byteOffset + 1, Len(buffer))

\* element k (from 1) of new Int16Array(buffer) over the bytes of the buffer,
\* in the byte order of the platform (little-endian on every platform a
\* browser runs on), as a two's complement value
Int16At(bytes, k) ==
    LET u == bytes[2 * k - 1] + 256 * bytes[2 * k]
    IN  IF u >= 32768 THEN u - 65536 ELSE u

\* dataInt16[...] / 32768.0, exact in a Float32Array: the sample as a fraction
Sample(v) == [num |-> v, den |-> SampleScale]

\* decodeAudioData(data, ctx, sampleRate, numChannels) where buffer is
\* data.buffer: new Int16Array throws RangeError on an odd byte length,
\* ctx.createBuffer truncates a fractional frame count and throws
\* NotSupportedError on a length of 0 frames
decodeAudioData(buffer, numChannels) ==
    LET int16Length == Len(buffer) \div 2
        frameCount == int16Length \div numChannels
    IN  IF Len(buffer) % 2 # 0
        THEN [error |-> "RangeError", channels |-> <<>>]
        ELSE IF frameCount = 0
        THEN [error |-> "NotSupportedError", channels |-> <<>>]
        ELSE [error |-> "none",
              channels |->
                  [channel \in 1..numChannels |->
                      [i \in 1..frameCount |->
                          Sample(Int16At(buffer,
                                         (i - 1) * numChannels + channel))]]]

\* a Uint8Array over a buffer of up to MaxBytes bytes, and a channel count
InitDecode ==
    /\ messages = <<>>
    /\ isLoading = FALSE
    /\ isRecording = FALSE
    /\ language = "ar"
    /\ activeAudioSourceRef = 0
    /\ speechSupported = TRUE
    /\ apiKey = TRUE
    /\ recognitions = <<NewRecognition("ar", <<>>)>>
    /\ recognitionRef = 1
    /\ sources = <<>>
    /\ calls = <<>>
    /\ aiInstance = FALSE
    /\ sendLimit = MaxSends
    /\ langToggles = 0
    /\ failures = 0
    /\ histArg = <<>>
    /\ reqHistory = <<>>
    /\ reqContext = <<>>
    /\ HandlesIdle
    /\ InputIdle
    /\ decBuffer \in UNION {[1..n -> ByteValues] : n \in 0..MaxBytes}
    /\ decOffset \in 0..Len(decBuffer)
    /\ decChannels \in 1..MaxChannels
    /\ decResult = NotDecoded

\* the call decodeAudioData(data, ctx, 24000, decChannels)
Decode ==
    /\ decResult = NotDecoded
    /\ decResult' = decodeAudioData(decBuffer, decChannels)
    /\ UNCHANGED <<decBuffer, decOffset, decChannels, appVars, histVars,
                   handleVars, inputVars>>

NextDecode == Decode

SpecDecode == InitDecode /\ [][NextDecode]_vars

\* ---- InputArea with its own state ----

\* a handleSend that does not look at isLoading
handleSendReturnsWhileIdle(txt, atts, loading) == Trim(txt) = "" /\ atts = 0

\* the early return of handleSend:
\* if ((!text.trim() && attachments.length === 0) || isLoading) return;
handleSendReturns(txt, atts, loading) ==
    (Trim(txt) = "" /\ atts = 0) \/ loading

\* onChange of the textarea, which is disabled while loading or recording
SetText(t) ==
    /\ ~(isLoading \/ isRecording)
    /\ inputText' = t
    /\ UNCHANGED <<inputAttachments, sendClicks, appVars, histVars, handleVars,
                   decVars>>

\* handleFileSelect with an accepted file; the attachment button is disabled
\* while loading or recording
SelectFile ==
    /\ ~(isLoading \/ isRecording)
    /\ inputAttachments < MaxAttachments
    /\ inputAttachments' = inputAttachments + 1
    /\ UNCHANGED <<inputText, sendClicks, appVars, histVars, handleVars, decVars>>

\* removeAttachment(index)
RemoveAttachment ==
    /\ inputAttachments > 0
    /\ inputAttachments' = inputAttachments - 1
    /\ UNCHANGED <<inputText, sendClicks, appVars, histVars, handleVars, decVars>>

\* handleSend of InputArea on its own text and attachments, called in any
\* state of the session
InputHandleSend ==
    /\ sendClicks < MaxClicks
    /\ sendClicks' = sendClicks + 1
    /\ IF handleSendReturns(inputText, inputAttachments, isLoading)
       THEN UNCHANGED <<inputText, inputAttachments, messages, isLoading,
                        activeAudioSourceRef, sources, calls, aiInstance>>
       ELSE /\ handleSendMessage(inputText, inputAttachments, FALSE, messages)
            /\ inputText' = ""
            /\ inputAttachments' = 0
    /\ UNCHANGED <<isRecording, language, recognitionRef, recognitions, envVars,
                   langToggles, failures, histVars, handleVars, decVars>>

\* a click on the microphone button, which is rendered in place of the send
\* button while the text is blank and nothing is attached
MicClick ==
    /\ Trim(inputText) = "" /\ inputAttachments = 0
    /\ ToggleRecording

NextInput ==
    \/ \E t \in InputTexts \cup {""} : SetText(t)
    \/ SelectFile
    \/ RemoveAttachment
    \/ InputHandleSend
    \/ MicClick
    \/ \E r \in 1..Len(recognitions) : OnStart(r)
    \/ \E r \in 1..Len(recognitions) : OnResult(r)
    \/ \E r \in 1..Len(recognitions) : OnEnd(r)
    \/ TextResponse
    \/ SpeechResponse

SpecInput == Init /\ [][NextInput]_vars

\* ---- properties ----

Playing == {h \in 1..Len(sources) : sources[h].state = "playing"}

InFlight == {i \in 1..Len(calls) : calls[i].pc = "text"}

Audible(msgs) == {i \in 1..Len(msgs) : msgs[i].isAudioPlaying}

WithRole(msgs, role) == {i \in 1..Len(msgs) : msgs[i].role = role}

\* a step in which handleSendMessage is invoked
SendStep == Len(calls') = Len(calls) + 1

\* a step in which the generateTextResponse of call i settles
TextStep(i) == calls[i].pc = "text" /\ calls'[i].pc # "text"

\* a step in which the generateSpeech of call i settles
SynthStep(i) == calls[i].pc = "synth" /\ calls'[i].pc = "done"

\* C1: at most one playback produces audio output at any time, whatever the
\* interleaving of sends, recordings, synthesis completions and ended events.
C1_AtMostOnePlayback == Cardinality(Playing) <= 1

\* C2: a step that invokes send leaves no playback active and no message
\* audible when its generation request is issued.
C2_SendInterrupts ==
    [][SendStep => (Playing' = {} /\ Audible(messages') = {})]_vars

\* C3: loading is never stuck: every settled backend call leaves loading
\* false, also in the step that starts the speech synthesis of the reply, and
\* whenever loading is true it eventually becomes false again.
C3_LoadingNeverStuck ==
    /\ [][\A i \in 1..Len(calls) : TextStep(i) => ~isLoading']_vars
    /\ [][SendStep /\ calls'[Len(calls')].pc # "text" => ~isLoading']_vars
    /\ isLoading ~> ~isLoading

C3_Witness ==
    /\ ~isLoading
    /\ \E i \in 1..Len(calls) : /\ calls[i].pc # "text"
                                /\ calls[i].aiMsg # 0
                                /\ messages[calls[i].aiMsg].text = ConnectionErrorText
    /\ \E i \in 1..Len(calls) : calls[i].pc = "synth"

\* C4: loading is true whenever a text generation request is in flight.
C4_LoadingReflectsInFlight == InFlight # {} => isLoading

\* C5: at most one generation request is in flight at any time.
C5_OneRequestInFlight == Cardinality(InFlight) <= 1

\* C6: the request context is the last min(n, 10) messages of the history, in
\* their order, each tagged user or model by its role.
C6_HistoryBound ==
    LET n == Len(reqHistory)
        k == IF n < 10 THEN n ELSE 10
    IN  /\ Len(reqContext) = k
        /\ \A i \in 1..k :
              /\ reqContext[i].text = reqHistory[n - k + i].text
              /\ reqContext[i].role \in {"user", "model"}
              /\ reqContext[i].role = "user" <=> reqHistory[n - k + i].role = "user"

C6_Witness ==
    /\ Len(reqHistory) > 10
    /\ Len(reqContext) = 10
    /\ reqContext[1].text = "2"

\* C7: every send appends exactly one USER message, and every settled
\* backend call exactly one ASSISTANT message, at the end of the list: the
\* reply on success, an error string on failure.
C7_OneReplyPerSend ==
    /\ [][SendStep =>
            LET c == calls'[Len(calls')]
            IN  /\ Cardinality(WithRole(messages', "user"))
                     = Cardinality(WithRole(messages, "user")) + 1
                /\ messages'[c.userMsg].role = "user"
                /\ messages'[c.userMsg].text = c.text
                /\ IF c.pc = "text"
                   THEN Len(messages') = Len(messages) + 1
                   ELSE /\ Len(messages') = Len(messages) + 2
                        /\ messages'[Len(messages')].role = "model"
                        /\ messages'[Len(messages')].text \in ErrorStrings]_vars
    /\ [][\A i \in 1..Len(calls) : TextStep(i) =>
            /\ Len(messages') = Len(messages) + 1
            /\ SubSeq(messages', 1, Len(messages)) = messages
            /\ messages'[Len(messages')].role = "model"
            /\ calls'[i].aiMsg = Len(messages')
            /\ IF failures' = failures
               THEN messages'[Len(messages')].text = ReplyText
               ELSE messages'[Len(messages')].text \in ErrorStrings]_vars
    /\ [](Cardinality(WithRole(messages, "model")) = Len(calls) - Cardinality(InFlight))

C7_Witness ==
    /\ failures > 0
    /\ InFlight = {}
    /\ Len(calls) = 2
    /\ \E i \in 1..Len(messages) : messages[i].text = ReplyText
    /\ \E i \in 1..Len(messages) : messages[i].text \in ErrorStrings

\* C8: with no credential configured no send issues a network request: each
\* send, the first and the later ones, yields the missing-key notice as the
\* assistant message and leaves loading false.
C8_MissingCredential ==
    ~apiKey =>
        /\ ~isLoading
        /\ ~aiInstance
        /\ Len(messages) = 2 * Len(calls)
        /\ \A i \in 1..Len(calls) :
              /\ ~calls[i].requested
              /\ calls[i].pc = "done"
              /\ calls[i].aiMsg = calls[i].userMsg + 1
              /\ messages[calls[i].userMsg].role = "user"
              /\ messages[calls[i].aiMsg].role = "model"
              /\ messages[calls[i].aiMsg].text = MissingKeyNotice

C8_Witness ==
    /\ ~apiKey
    /\ Len(calls) >= 2
    /\ \E i \in 1..Len(calls) :
          /\ calls[i].text = "hello" /\ calls[i].attachments = 0 /\ ~calls[i].voice
          /\ messages[calls[i].aiMsg].text = MissingKeyNotice

\* C9: a speech synthesis that fails or returns no audio creates no
\* playback handle, leaves the active-handle slot alone, appends no message
\* and leaves the message's audible flag false, then and thereafter.
C9_NoAudioNoPlayback ==
    /\ [][\A i \in 1..Len(calls) : (SynthStep(i) /\ failures' > failures) =>
            /\ sources' = sources
            /\ activeAudioSourceRef' = activeAudioSourceRef
            /\ Len(messages') = Len(messages)
            /\ ~messages'[calls[i].aiMsg].isAudioPlaying]_vars
    /\ [](\A i \in 1..Len(calls) :
            (/\ calls[i].pc = "done"
             /\ calls[i].aiMsg # 0
             /\ \A h \in 1..Len(sources) : sources[h].msg # calls[i].aiMsg)
            => ~messages[calls[i].aiMsg].isAudioPlaying)

C9_Witness ==
    \E i \in 1..Len(calls) :
        /\ calls[i].voice
        /\ calls[i].pc = "done"
        /\ calls[i].requested
        /\ \A h \in 1..Len(sources) : sources[h].msg # calls[i].aiMsg
        /\ ~messages[calls[i].aiMsg].isAudioPlaying
        /\ activeAudioSourceRef # 0

\* C10: a message whose audible flag is set has a started playback that has
\* neither ended nor been stopped.
C10_AudibleOnlyWhilePlaying ==
    \A i \in 1..Len(messages) :
        messages[i].isAudioPlaying =>
            \E h \in Playing : sources[h].msg = messages[i].id


\* a step in which playing source h is stopped by a call of stop()
ForcedStop(h) == sources[h].state = "playing" /\ sources'[h].state = "stopped"

\* a step in which playing source h reaches the end of its buffer
NaturalEnd(h) == sources[h].state = "playing" /\ sources'[h].state = "ended"

\* C11: whenever a playing message's playback is stopped by a send, by the
\* start of a recording or by a newer playback, the step that calls stop()
\* leaves that message's audible flag false.
C11_ForcedStopClearsFlag ==
    [][\A h \in 1..Len(sources) :
          ForcedStop(h) => ~messages'[sources[h].msg].isAudioPlaying]_vars

\* C13: a playback that ended naturally has had its completion callback
\* invoked exactly once, its message's audible flag is false and the
\* active-handle slot does not refer to it.
C13_NaturalEndCompletes ==
    \A h \in 1..Len(sources) :
        sources[h].state = "ended" =>
            /\ sources[h].callbacks = 1
            /\ ~messages[sources[h].msg].isAudioPlaying
            /\ activeAudioSourceRef # h

\* a reply played to its natural end while a later reply is playing
C13_Witness ==
    \E h, k \in 1..Len(sources) :
        /\ sources[h].state = "ended"
        /\ sources[k].state = "playing"
        /\ activeAudioSourceRef = k

\* the capture instances that are listening to the microphone
Capturing == {r \in 1..Len(recognitions) : recognitions[r].state = "listening"}

\* C14: audio playback and voice capture are mutually exclusive: in no
\* reachable state is a recording in progress while a playback is producing
\* output.
C14_PlaybackExcludesCapture == ~(Capturing # {} /\ Playing # {})

\* the identifiers of a message list, in order
Ids(msgs) == [i \in 1..Len(msgs) |-> msgs[i].id]

\* C15: the history that a send supplies to the generation backend is the
\* session's message list as it stood immediately before the new USER message
\* was appended, for typed and for voice-originated sends alike.
C15_HistoryIsPriorMessages ==
    [][SendStep => calls'[Len(calls')].history = Ids(messages)]_vars

\* a step in which instance r delivers the result of an utterance
ResultStep(r) ==
    /\ recognitions[r].state \in {"listening", "stopping"}
    /\ recognitions'[r].state = "ending"

\* a step in which instance r reports a capture error
ErrorStep(r) == recognitions[r].state # "failed" /\ recognitions'[r].state = "failed"

\* C16: each captured utterance results in exactly one send carrying the
\* transcript with voice mode enabled, the reply of a voice send is followed
\* by a synthesis request, and a capture error results in no send and no
\* message, with the recording state reset to idle.
C16_UtteranceSendsOnce ==
    [][/\ \A r \in 1..Len(recognitions) :
            /\ ResultStep(r) =>
                 /\ Len(calls') = Len(calls) + 1
                 /\ calls'[Len(calls')].voice
                 /\ calls'[Len(calls')].text = Transcript
                 /\ Cardinality({i \in 1..Len(messages') :
                        /\ i > Len(messages)
                        /\ messages'[i].role = "user"
                        /\ messages'[i].text = Transcript}) = 1
            /\ ErrorStep(r) =>
                 /\ calls' = calls
                 /\ messages' = messages
                 /\ ~isRecording'
       /\ \A i \in 1..Len(calls) :
            TextStep(i) /\ calls[i].voice => calls'[i].pc = "synth"]_vars

\* the reply of a captured utterance awaits its synthesis and a later
\* recording has failed
C16_Witness ==
    /\ \E i \in 1..Len(calls) :
          calls[i].voice /\ calls[i].text = Transcript /\ calls[i].pc = "synth"
    /\ \E r \in 1..Len(recognitions) : recognitions[r].state = "failed"

\* C17: when the environment has no speech-capture capability no capture
\* instance is ever created, the recording state is never true and no send
\* is produced by the capture path.
C17_NoCapabilityNoCapture ==
    ~speechSupported =>
        /\ recognitions = <<>>
        /\ recognitionRef = 0
        /\ ~isRecording
        /\ \A i \in 1..Len(calls) : ~calls[i].voice

\* without the capability, after the language was switched (setupRecognition
\* has run again) and a typed send was made
C17_Witness == ~speechSupported /\ langToggles > 0 /\ Len(calls) > 0

\* a step in which instance r, which is not the installed one, delivers an
\* event
StaleEvent(r) == r # recognitionRef /\ recognitions'[r] # recognitions[r]

\* C18: the installed capture instance carries the language tag of the
\* selected language, every replaced instance has been aborted, and no event
\* delivered by a replaced instance changes the recording state or produces a
\* send.
C18_LanguageSwitchIsolates ==
    /\ [](recognitionRef # 0 =>
            recognitions[recognitionRef].lang = RecognitionLang(language))
    /\ [](\A r \in 1..Len(recognitions) :
            r # recognitionRef => recognitions[r].state \in {"aborting", "idle"})
    /\ [][\A r \in 1..Len(recognitions) :
            StaleEvent(r) => isRecording' = isRecording /\ calls' = calls]_vars

\* message m of the first list equals message n of the second in everything
\* but the audible flag
SameButFlag(m, n) ==
    /\ m.id = n.id
    /\ m.role = n.role
    /\ m.text = n.text
    /\ m.attachments = n.attachments

\* C19: the message history is append-only: no step removes or reorders a
\* message or changes a field of an existing message other than its audible
\* flag, and message identifiers stay unique.
C19_AppendOnly ==
    /\ [](\A i, j \in 1..Len(messages) :
            messages[i].id = messages[j].id => i = j)
    /\ [][/\ Len(messages') >= Len(messages)
          /\ \A i \in 1..Len(messages) : SameButFlag(messages'[i], messages[i])]_vars

\* a second send has interrupted the playback of the first reply
C19_Witness ==
    /\ Len(messages) >= 3
    /\ \E h \in 1..Len(sources) :
          /\ sources[h].state = "stopped"
          /\ sources[h].msg < Len(messages)
          /\ ~messages[sources[h].msg].isAudioPlaying

\* a step in which stop() is called on handle h
StopCall(h) == stopCalls'[h] = stopCalls[h] + 1

\* C12: stop() on a playback handle never raises, a stop() on a handle that
\* was stopped before or has ended has no effect, and the completion
\* callback of a handle is invoked at most once.
C12_StopIdempotent ==
    /\ [](~stopRaised)
    /\ [](\A h \in 1..Len(handles) : handles[h].callbacks <= 1)
    /\ [][\A h \in 1..Len(handles) :
            StopCall(h) /\ handles[h].state # "playing" =>
                handles'[h] = handles[h]]_vars

\* one handle was stopped after its natural end, another was stopped twice
\* and its ended event has been delivered
C12_Witness ==
    \E h, k \in 1..Len(handles) :
        /\ handles[h].state = "ended" /\ stopCalls[h] >= 1
        /\ handles[k].state = "stopped" /\ stopCalls[k] >= 2
        /\ handles[k].callbacks = 1

\* the signed 16-bit little-endian value at position k (from 1) of a byte
\* sequence
SignedLE(bytes, k) ==
    ((bytes[2 * k - 1] + 256 * bytes[2 * k] + 32768) % 65536) - 32768

\* the result is a buffer that holds the samples of the byte sequence bytes
DecodesTo(result, bytes, numChannels) ==
    LET frames == (Len(bytes) \div 2) \div numChannels
    IN  /\ result.error = "none"
        /\ Len(result.channels) = numChannels
        /\ \A c \in 1..Len(result.channels) :
              /\ Len(result.channels[c]) = frames
              /\ \A i \in 1..Len(result.channels[c]) :
                    LET sample == result.channels[c][i]
                    IN  /\ sample.den = 32768
                        /\ sample.num = SignedLE(bytes, (i - 1) * numChannels + c)
                        /\ -sample.den <= sample.num
                        /\ sample.num < sample.den

\* C20: for a byte sequence of 16-bit signed little-endian PCM whose length
\* is a multiple of 2 * channelCount, decodeAudioData produces a buffer with
\* byteLength / 2 / channelCount frames in which sample i of channel c is the
\* signed 16-bit value at interleaved position i * channelCount + c divided by
\* 32768, a value in [-1.0, 1.0).
C20_DecodeSamples ==
    LET data == DataBytes(decBuffer, decOffset)
    IN  (decResult # NotDecoded /\ Len(data) % (2 * decChannels) = 0) =>
            DecodesTo(decResult, data, decChannels)

\* the same statement for a non-empty Uint8Array that spans its whole buffer
DecodeOfWholeBuffer ==
    (/\ decResult # NotDecoded
     /\ decOffset = 0
     /\ Len(decBuffer) > 0
     /\ Len(decBuffer) % (2 * decChannels) = 0) =>
        DecodesTo(decResult, decBuffer, decChannels)

\* a step in which InputArea.handleSend is called
ClickStep == sendClicks' = sendClicks + 1

\* C21: handleSend changes nothing (no message, no request, text and pending
\* attachments kept) when loading is true or when the text is blank and there
\* are no attachments; otherwise it forwards exactly one send of the text and
\* the attachments with voice mode disabled and clears both.
C21_HandleSendFrame ==
    [][ClickStep =>
        IF isLoading \/ (inputText \in {"", " "} /\ inputAttachments = 0)
        THEN /\ messages' = messages
             /\ calls' = calls
             /\ isLoading' = isLoading
             /\ inputText' = inputText
             /\ inputAttachments' = inputAttachments
        ELSE /\ Len(calls') = Len(calls) + 1
             /\ ~calls'[Len(calls')].voice
             /\ calls'[Len(calls')].text = inputText
             /\ calls'[Len(calls')].attachments = inputAttachments
             /\ Cardinality({i \in 1..Len(messages') :
                    i > Len(messages) /\ messages'[i].role = "user"}) = 1
             /\ inputText' = ""
             /\ inputAttachments' = 0]_vars

\* a typed send was forwarded and cleared the input, after a handleSend that
\* did nothing (the reply of the voice send was loading, or nothing was typed)
C21_Witness ==
    /\ Len(calls) = 2
    /\ calls[1].voice
    /\ ~calls[2].voice /\ calls[2].text = "hello"
    /\ sendClicks >= 2
    /\ inputText = ""
    /\ inputAttachments = 0

\* C22: the active-handle slot is non-null exactly when it refers to a
\* playback that has started and has neither ended nor been stopped: a
\* filled slot holds a playing source, and a playing source is held by the
\* slot (no callback of a replaced playback has cleared it).
C22_SlotTracksPlayback ==
    /\ activeAudioSourceRef # 0 => sources[activeAudioSourceRef].state = "playing"
    /\ \A h \in Playing : activeAudioSourceRef = h

\* a step in which the playback of the reply of call i starts
PlaybackStarts(i) ==
    /\ SynthStep(i)
    /\ Len(sources') = Len(sources) + 1

\* C23: speech for a reply never starts after a later send has begun: when
\* the synthesis of call i settles after a later call was made, no playback
\* starts and the reply of call i is not left flagged as audible.
C23_NoSpeechAfterLaterSend ==
    [][\A i \in 1..Len(calls) :
          SynthStep(i) /\ i < Len(calls) =>
              /\ ~PlaybackStarts(i)
              /\ ~messages'[calls[i].aiMsg].isAudioPlaying]_vars

\* C24: in every reachable state at most one message has its audible flag
\* set to true.
C24_AtMostOneAudible == Cardinality(Audible(messages)) <= 1

\* C25: the message list strictly alternates: every ASSISTANT message is
\* immediately preceded by the USER message it answers, so replies appear in
\* the order of the sends that caused them.
C25_RepliesFollowTheirSend ==
    /\ \A i \in 1..Len(calls) :
          calls[i].aiMsg # 0 => calls[i].aiMsg = calls[i].userMsg + 1
    /\ \A m \in 1..Len(messages) :
          messages[m].role = "model" =>
              m > 1 /\ messages[m - 1].role = "user"

====
